---- MODULE Spec2Model ----
(***************************************************************************)
(* Model of haystack/nodes/prompt/invocation_layer/handlers.py:            *)
(*   - DefaultTokenStreamingHandler   (prints the token, returns it)       *)
(*   - AnthropicTokenStreamingHandler (diffs full-text snapshots)          *)
(*   - HFTokenStreamingHandler        (forwards finalized text)            *)
(*   - DefaultPromptHandler           (fits prompt into the length budget) *)
(* Python str values are sequences of one-character strings; Python lists  *)
(* of tokens are sequences of such sequences.                              *)
(***************************************************************************)
EXTENDS Integers, Sequences, FiniteSets, TLC

VARIABLES
    previous_text,     \* AnthropicTokenStreamingHandler.previous_text
    token_received,    \* argument of the last AnthropicTokenStreamingHandler call
    chopped_text,      \* value returned by the last AnthropicTokenStreamingHandler call
    prev_before,       \* previous_text as it was when the last call was entered
    received,          \* every token_received so far, in call order
    handler_calls,     \* arguments the wrapped token handler was called with, in order
    stdout,            \* what DefaultTokenStreamingHandler has printed
    finalized,         \* (token, stream_end) of every on_finalized_text so far
    tokenizer,         \* DefaultPromptHandler.tokenizer
    model_max_length,  \* DefaultPromptHandler.model_max_length
    max_length,        \* DefaultPromptHandler.max_length
    prompt,            \* argument of the last DefaultPromptHandler call
    returned           \* <<dictionary>> returned by the last DefaultPromptHandler call

vars == <<previous_text, token_received, chopped_text, prev_before, received,
          handler_calls, stdout, finalized, tokenizer, model_max_length,
          max_length, prompt, returned>>

streamVars == <<previous_text, token_received, chopped_text, prev_before, received>>
promptVars == <<tokenizer, model_max_length, max_length, prompt, returned>>

----------------------------------------------------------------------------
(* Bounds *)

MaxTextLen == 3      \* longest text handed to a streaming handler
MaxCalls == 3        \* calls made on one streaming handler
MaxPromptLen == 4    \* longest prompt, in characters
MaxFinalized == 2    \* on_finalized_text calls made on one HF streamer
MaxBudget == 3       \* largest model_max_length / max_length

TextAlphabet == {"a", "b"}
PromptAlphabet == {"a", "b", " "}
ModelNames == {"whitespace", "character"}

StringsUpTo(alphabet, n) == UNION {[1..k -> alphabet] : k \in 0..n}

Texts == StringsUpTo(TextAlphabet, MaxTextLen)
Prompts == StringsUpTo(PromptAlphabet, MaxPromptLen)
Budgets == 0..MaxBudget

----------------------------------------------------------------------------
(* Python built-ins used by the handlers *)

Min(a, b) == IF a <= b THEN a ELSE b
Max(a, b) == IF a >= b THEN a ELSE b

\* s[:stop] -- a negative stop counts from the end
SliceTo(s, stop) ==
    LET end == IF stop < 0 THEN Max(Len(s) + stop, 0) ELSE Min(stop, Len(s))
    IN  SubSeq(s, 1, end)

\* s[start:] -- a negative start counts from the end
SliceFrom(s, start) ==
    LET begin == IF start < 0 THEN Max(Len(s) + start, 0) ELSE Min(start, Len(s))
    IN  SubSeq(s, begin + 1, Len(s))

\* sub in s  (str.__contains__)
Contains(sub, s) ==
    \E i \in 0..(Len(s) - Len(sub)) : SubSeq(s, i + 1, i + Len(sub)) = sub

\* s.startswith(prefix)
StartsWith(s, prefix) ==
    /\ Len(prefix) <= Len(s)
    /\ SubSeq(s, 1, Len(prefix)) = prefix

RECURSIVE Concat(_)
\* "".join(chunks)
Concat(chunks) ==
    IF chunks = <<>> THEN <<>> ELSE Head(chunks) \o Concat(Tail(chunks))

----------------------------------------------------------------------------
(* The tokenizer loaded by AutoTokenizer.from_pretrained: a whitespace     *)
(* tokenizer (words; joined back with single blanks) or a character        *)
(* tokenizer (one token per character; joined back without separator).     *)

RECURSIVE SplitWords(_, _)
SplitWords(s, cur) ==
    IF s = <<>>
    THEN IF cur = <<>> THEN <<>> ELSE <<cur>>
    ELSE IF Head(s) = " "
         THEN IF cur = <<>>
              THEN SplitWords(Tail(s), <<>>)
              ELSE <<cur>> \o SplitWords(Tail(s), <<>>)
         ELSE SplitWords(Tail(s), Append(cur, Head(s)))

RECURSIVE JoinWords(_)
JoinWords(tokens) ==
    IF tokens = <<>> THEN <<>>
    ELSE IF Len(tokens) = 1 THEN tokens[1]
    ELSE tokens[1] \o <<" ">> \o JoinWords(Tail(tokens))

\* self.tokenizer.tokenize(prompt)
tokenize(tk, p) ==
    IF tk = "whitespace" THEN SplitWords(p, <<>>)
    ELSE [i \in 1..Len(p) |-> <<p[i]>>]

\* self.tokenizer.convert_tokens_to_string(tokens)
convert_tokens_to_string(tk, tokens) ==
    IF tk = "whitespace" THEN JoinWords(tokens) ELSE Concat(tokens)

----------------------------------------------------------------------------
(* DefaultTokenStreamingHandler.__call__: print(token, end="") and return  *)
(* the token.  handler_calls records the call, stdout the printed text.    *)

DefaultTokenStreamingHandler(token) ==
    /\ handler_calls' = Append(handler_calls, token)
    /\ stdout' = stdout \o token

----------------------------------------------------------------------------
(* AnthropicTokenStreamingHandler *)

\* lines 69-72: previous_text after the containment test
ResetNever(prev, tok) == prev
ResetIfAbsent(prev, tok) ==
    IF ~Contains(prev, tok) THEN <<>> ELSE prev

\* lines 74-75: chopped_text
ChopOffByOne(prev, tok) == SliceFrom(tok, Len(prev) + 1)
Chop(prev, tok) == SliceFrom(tok, Len(prev))

\* lines 69-75
ChoppedText(prev, tok) == Chop(ResetIfAbsent(prev, tok), tok)

AnthropicCallForwardAll(tok) ==
    /\ Len(received) < MaxCalls
    /\ prev_before' = previous_text
    /\ token_received' = tok
    /\ received' = Append(received, tok)
    /\ chopped_text' = ChoppedText(previous_text, tok)
    /\ DefaultTokenStreamingHandler(tok)
    /\ previous_text' = tok
    /\ UNCHANGED <<finalized, promptVars>>

AnthropicCallKeepFirst(tok) ==
    /\ Len(received) < MaxCalls
    /\ prev_before' = previous_text
    /\ token_received' = tok
    /\ received' = Append(received, tok)
    /\ chopped_text' = ChoppedText(previous_text, tok)
    /\ DefaultTokenStreamingHandler(chopped_text')
    /\ previous_text' = IF previous_text = <<>> THEN tok ELSE previous_text
    /\ UNCHANGED <<finalized, promptVars>>

\* AnthropicTokenStreamingHandler.__call__(token_received)
AnthropicCall(tok) ==
    /\ Len(received) < MaxCalls
    /\ prev_before' = previous_text
    /\ token_received' = tok
    /\ received' = Append(received, tok)
    /\ chopped_text' = ChoppedText(previous_text, tok)
    /\ DefaultTokenStreamingHandler(chopped_text')
    /\ previous_text' = tok
    /\ UNCHANGED <<finalized, promptVars>>

----------------------------------------------------------------------------
(* HFTokenStreamingHandler *)

\* line 89
TokenToSendNoNewline(token, stream_end) == token
TokenToSend(token, stream_end) ==
    IF stream_end THEN token \o <<"\n">> ELSE token

\* HFTokenStreamingHandler.on_finalized_text(token, stream_end)
on_finalized_text(token, stream_end) ==
    /\ Len(finalized) < MaxFinalized
    /\ finalized' = Append(finalized, <<token, stream_end>>)
    /\ DefaultTokenStreamingHandler(TokenToSend(token, stream_end))
    /\ UNCHANGED <<streamVars, promptVars>>

----------------------------------------------------------------------------
(* DefaultPromptHandler *)

ResultKeys ==
    {"resized_prompt", "prompt_length", "new_prompt_length",
     "model_max_length", "max_length"}

HandleRoundTrip(tk, mml, ml, p) ==
    LET tokenized_payload == tokenize(tk, p)
        kept == IF Len(tokenized_payload) + ml <= mml
                THEN tokenized_payload
                ELSE SliceTo(tokenized_payload, mml - ml)
    IN  [resized_prompt |-> IF p = <<>> THEN p ELSE convert_tokens_to_string(tk, kept),
         prompt_length |-> Len(tokenized_payload),
         new_prompt_length |-> Len(kept),
         model_max_length |-> mml,
         max_length |-> ml]

HandleReportRemaining(tk, mml, ml, p) ==
    LET tokenized_payload == tokenize(tk, p)
        kept == IF Len(tokenized_payload) + ml <= mml
                THEN tokenized_payload
                ELSE SliceTo(tokenized_payload, mml - ml)
    IN  [resized_prompt |-> IF Len(tokenized_payload) + ml <= mml
                            THEN p ELSE convert_tokens_to_string(tk, kept),
         prompt_length |-> Len(tokenized_payload),
         new_prompt_length |-> Len(kept),
         model_max_length |-> mml - ml,
         max_length |-> ml]

\* lines 112-134: the dictionary __call__ returns
Handle(tk, mml, ml, p) ==
    IF p = <<>>
    THEN [resized_prompt |-> p,
          prompt_length |-> 0,
          new_prompt_length |-> 0,
          model_max_length |-> mml,
          max_length |-> ml]
    ELSE LET prompt_length == Len(tokenize(tk, p))
         IN  IF prompt_length + ml <= mml
             THEN [resized_prompt |-> p,
                   prompt_length |-> prompt_length,
                   new_prompt_length |-> prompt_length,
                   model_max_length |-> mml,
                   max_length |-> ml]
             ELSE LET tokenized_payload == tokenize(tk, p)
                  IN  [resized_prompt |->
                           convert_tokens_to_string(tk, SliceTo(tokenized_payload, mml - ml)),
                       prompt_length |-> prompt_length,
                       new_prompt_length |-> Len(SliceTo(tokenized_payload, mml - ml)),
                       model_max_length |-> mml,
                       max_length |-> ml]

\* DefaultPromptHandler.__call__(prompt)
PromptCall(p) ==
    /\ prompt' = p
    /\ returned' = <<Handle(tokenizer, model_max_length, max_length, p)>>
    /\ UNCHANGED <<tokenizer, model_max_length, max_length>>
    /\ UNCHANGED <<streamVars, handler_calls, stdout, finalized>>

----------------------------------------------------------------------------
(* Specifications: one per handler class *)

\* AnthropicTokenStreamingHandler.__init__ with a DefaultTokenStreamingHandler
InitStream ==
    /\ previous_text = <<>>
    /\ token_received = <<>>
    /\ chopped_text = <<>>
    /\ prev_before = <<>>
    /\ received = <<>>

InitWrapped ==
    /\ handler_calls = <<>>
    /\ stdout = <<>>
    /\ finalized = <<>>

\* DefaultPromptHandler.__init__(model_name_or_path, model_max_length, max_length)
InitPrompt(name, mml, ml) ==
    /\ tokenizer = name
    /\ model_max_length = mml
    /\ max_length = ml
    /\ prompt = <<>>
    /\ returned = <<>>

Init ==
    /\ InitStream
    /\ InitWrapped
    /\ InitPrompt("whitespace", 0, 0)

NextAnthropic == \E tok \in Texts : AnthropicCall(tok)

SpecAnthropic == Init /\ [][NextAnthropic]_vars

NextHF == \E token \in Texts, stream_end \in BOOLEAN : on_finalized_text(token, stream_end)

SpecHF == Init /\ [][NextHF]_vars

InitPromptHandler ==
    /\ InitStream
    /\ InitWrapped
    /\ \E name \in ModelNames, mml \in Budgets, ml \in Budgets : InitPrompt(name, mml, ml)

NextPrompt == \E p \in Prompts : PromptCall(p)

SpecPrompt == InitPromptHandler /\ [][NextPrompt]_vars

----------------------------------------------------------------------------
(* Properties of DefaultPromptHandler (checked under SpecPrompt) *)

Called == returned # <<>>
Result == returned[1]
TokenCount == Len(tokenize(tokenizer, prompt))
WithinBudget == TokenCount + max_length <= model_max_length

\* the first k tokens of a token list (none when k <= 0)
FirstTokens(tokens, k) == SubSeq(tokens, 1, Min(Max(k, 0), Len(tokens)))

\* C1: for every non-empty prompt and every configuration, the resized
\* prompt and the reserved answer length together are within the model
\* maximum: new_prompt_length + max_length <= model_max_length.
C1_FitsModelMaximum ==
    (Called /\ prompt # <<>>) =>
        Result.new_prompt_length + max_length <= model_max_length

\* C2: when token count + max_length <= model_max_length the prompt comes
\* back unchanged and new_prompt_length = prompt_length = token count.
C2_WithinBudgetUnchanged ==
    (Called /\ WithinBudget) =>
        /\ Result.resized_prompt = prompt
        /\ Result.prompt_length = TokenCount
        /\ Result.new_prompt_length = TokenCount

\* C2 witness: a call within budget on a prompt that tokenizing and
\* converting back would alter.
C2_Witness ==
    /\ Called
    /\ WithinBudget
    /\ TokenCount >= 2
    /\ convert_tokens_to_string(tokenizer, tokenize(tokenizer, prompt)) # prompt

\* C3: when a non-empty prompt's token count + max_length exceeds
\* model_max_length, resized_prompt is the string conversion of the first
\* (model_max_length - max_length) tokens, new_prompt_length is the
\* truncation point model_max_length - max_length and prompt_length is the
\* original token count.
C3_OverBudgetTruncated ==
    (Called /\ prompt # <<>> /\ ~WithinBudget) =>
        /\ Result.resized_prompt =
               convert_tokens_to_string(tokenizer,
                   FirstTokens(tokenize(tokenizer, prompt), model_max_length - max_length))
        /\ Result.new_prompt_length = model_max_length - max_length
        /\ Result.prompt_length = TokenCount

\* C4: every call returns a dictionary with exactly the five keys, whose
\* model_max_length and max_length are the configured values, and no call
\* changes the configured values.
C4_ResultShapeAndFrame ==
    /\ [](Called =>
            /\ DOMAIN Result = ResultKeys
            /\ Result.model_max_length = model_max_length
            /\ Result.max_length = max_length)
    /\ [][/\ model_max_length' = model_max_length
          /\ max_length' = max_length]_vars

\* C4 witness: an over-budget call with differing budget parameters has returned.
C4_Witness ==
    /\ Called
    /\ ~WithinBudget
    /\ model_max_length > max_length
    /\ max_length > 0
    /\ Result.new_prompt_length < Result.prompt_length

----------------------------------------------------------------------------
(* Properties of AnthropicTokenStreamingHandler (checked under SpecAnthropic) *)

WasCalled == received # <<>>
LastOf(s) == s[Len(s)]

\* every received text has the one received before it as a prefix
EachExtendsPrevious(texts) ==
    \A i \in 1..(Len(texts) - 1) : StartsWith(texts[i + 1], texts[i])

\* C5: when the incoming text extends the previously seen text (empty
\* before the first call) the call returns exactly the suffix beyond the
\* length of the previously seen text; the first call returns the full text.
C5_ExtendingReturnsSuffix ==
    /\ (WasCalled /\ StartsWith(token_received, prev_before)) =>
           /\ prev_before \o chopped_text = token_received
           /\ Len(chopped_text) = Len(token_received) - Len(prev_before)
    /\ Len(received) = 1 => chopped_text = token_received

\* C5 witness: a later call whose text properly extends a non-empty previous text.
C5_Witness ==
    /\ Len(received) >= 2
    /\ prev_before # <<>>
    /\ StartsWith(token_received, prev_before)
    /\ token_received # prev_before
    /\ chopped_text # <<>>

\* C6: when the incoming text does not contain the previously seen text the
\* call returns the incoming text in full and the handler then holds the
\* incoming text as its previously seen text.
C6_AbsentResets ==
    (WasCalled /\ ~Contains(prev_before, token_received)) =>
        /\ chopped_text = token_received
        /\ previous_text = token_received

\* C6 witness: a call with a non-empty text that does not contain the previous one.
C6_Witness ==
    /\ WasCalled
    /\ ~Contains(prev_before, token_received)
    /\ token_received # <<>>
    /\ chopped_text = token_received

\* C7: when every incoming text has the previous incoming text as a prefix,
\* the chunks passed to the wrapped handler, concatenated in call order,
\* equal the most recently received text.
C7_DeliveredEqualsLatest ==
    (WasCalled /\ EachExtendsPrevious(received)) =>
        /\ Concat(handler_calls) = LastOf(received)
        /\ stdout = LastOf(received)

\* C7 witness: three snapshots, each properly extending the one before.
C7_Witness ==
    /\ Len(received) = 3
    /\ EachExtendsPrevious(received)
    /\ received[1] # <<>>
    /\ received[2] # received[1]
    /\ received[3] # received[2]

\* C8: when the previously seen text is not a prefix of the incoming text
\* (also when it occurs only later inside it) the handler resets and returns
\* the incoming text in full.
C8_NotPrefixResets ==
    (WasCalled /\ ~StartsWith(token_received, prev_before)) =>
        chopped_text = token_received

\* C10: every call invokes the wrapped handler exactly once, with exactly
\* the chunk the call returns, and afterwards previous_text is the text
\* received in that call.
C10_OneForwardPerCall ==
    /\ Len(handler_calls) = Len(received)
    /\ WasCalled =>
           /\ LastOf(handler_calls) = chopped_text
           /\ token_received = LastOf(received)
           /\ previous_text = token_received

\* C10 witness: the same non-empty text received twice in a row, the second
\* call forwarding the empty chunk.
C10_Witness ==
    /\ Len(received) >= 2
    /\ token_received # <<>>
    /\ token_received = prev_before
    /\ chopped_text = <<>>
    /\ LastOf(handler_calls) = <<>>

----------------------------------------------------------------------------
(* Properties of HFTokenStreamingHandler (checked under SpecHF) *)

\* C9: each on_finalized_text calls the wrapped handler exactly once, with
\* the text unchanged when stream_end is false and with one newline appended
\* when it is true; the chunks arrive in the order they were finalized.
C9_ForwardsFinalizedText ==
    /\ Len(handler_calls) = Len(finalized)
    /\ \A i \in 1..Len(finalized) :
           handler_calls[i] =
               IF finalized[i][2] THEN finalized[i][1] \o <<"\n">> ELSE finalized[i][1]

\* C9 witness: two different chunks finalized, the second one ending the stream.
C9_Witness ==
    /\ Len(finalized) = 2
    /\ finalized[1][1] # finalized[2][1]
    /\ ~finalized[1][2]
    /\ finalized[2][2]
    /\ finalized[2][1] # <<>>

====
